---- MODULE Spec2Model ----
(***************************************************************************)
(* fif: interactive find-in-files TUI (Go, Bubble Tea + ripgrep).          *)
(*                                                                         *)
(* Six specifications over one set of variables:                           *)
(*   Spec         the Bubble Tea Model (package tui): the event loop's     *)
(*                Update handlers, the pending tea.Tick messages and the   *)
(*                commands (search, preview load) running off the loop;    *)
(*   SpecSearch   one call of search.Searcher.Search (search/rg.go): the   *)
(*                adapter goroutine from process start to channel close;   *)
(*   SpecPreview  one call of preview.LoadPreview (package preview);       *)
(*   SpecIDs      overlapping calls of Searcher.Search numbering themselves *)
(*                from the shared searchID field;                          *)
(*   SpecParse    one call of search.ParseVimgrepLine;                     *)
(*   SpecCompletion  one request from handleStartSearch to                 *)
(*                handleSearchResult, under fair scheduling.               *)
(* Strings are sequences of one-character strings. A nil pointer, error or *)
(* func is the empty sequence <<>> (or 0 for a context id); a non-nil one  *)
(* is a one-element sequence.                                              *)
(***************************************************************************)
EXTENDS Integers, Sequences, FiniteSets, TLC

VARIABLES
    \* ---- tui.Model fields
    query, mask, inputMode,
    searchCancel, searchResults, selectedIndex, resultsOffset,
    isSearching, searchError,
    preview, previewError,
    searchScope, gitRoot,
    waitingForEscSequence,
    \* ---- what the program returned to the runtime / the outside
    quit, opened,
    \* ---- messages and commands in flight
    ticks, escTicks, cmds, ctxDone, nCtx, loads,
    \* ---- observation of the debounce burst (history variables)
    burst,
    \* ---- the limits of the session explored (fixed by Init)
    env,
    \* ---- SpecSearch: one Searcher.Search call
    rg,
    \* ---- SpecPreview: one LoadPreview call
    pl,
    \* ---- SpecIDs: the Searcher's searchID and the calls that number themselves
    sr,
    \* ---- SpecParse: one ParseVimgrepLine call
    pv

modelVars == <<query, mask, inputMode, searchCancel, searchResults, selectedIndex,
               resultsOffset, isSearching, searchError, preview, previewError,
               searchScope, gitRoot, waitingForEscSequence, quit, opened,
               ticks, escTicks, cmds, ctxDone, nCtx, loads, burst>>

vars == <<modelVars, env, rg, pl, sr, pv>>

----------------------------------------------------------------------------
(* Bounds *)

MaxQueryLen == 2
MaxMaskLen == 1
MaxTriggers == 3
MaxEscTimers == 1
MaxSearches == 2
MaxLoads == 2
MaxResults == 6
FileLines == 18
MaxOver == 12
MaxOutLines == 2
MaxExit == 12
MaxCalls == 3
MaxInt == 12
MaxRawLen == 6

\* A session is explored within one of four sets of limits: queryLen and
\* maskLen bound the text fields, triggers the calls of triggerSearch, searches
\* the requests issued, loads the preview loads in flight, esc the pending
\* escTimeoutMsg; lens are the lengths of the result lists the backend returns.
\*   typing:     long text and many debounce timers, short result lists;
\*   browsing:   result lists longer than the visible window, short text;
\*   previewing: several preview loads in flight;
\*   leaving:    the ESC key and its timeout.
Typing ==
    [name |-> "typing", queryLen |-> MaxQueryLen, maskLen |-> MaxMaskLen,
     triggers |-> MaxTriggers, searches |-> MaxSearches, loads |-> MaxLoads - 1,
     lens |-> {0, 2}, esc |-> 0]

Browsing ==
    [name |-> "browsing", queryLen |-> MaxQueryLen - 1, maskLen |-> MaxMaskLen - 1,
     triggers |-> MaxTriggers - 1, searches |-> MaxSearches, loads |-> MaxLoads - 1,
     lens |-> {0, MaxResults, MaxResults + 2}, esc |-> 0]

Previewing ==
    [name |-> "previewing", queryLen |-> MaxQueryLen - 1, maskLen |-> MaxMaskLen - 1,
     triggers |-> MaxTriggers - 1, searches |-> MaxSearches, loads |-> MaxLoads,
     lens |-> {0, 3}, esc |-> 0]

Leaving ==
    [name |-> "leaving", queryLen |-> MaxQueryLen - 1, maskLen |-> MaxMaskLen - 1,
     triggers |-> MaxTriggers - 1, searches |-> MaxSearches, loads |-> MaxLoads - 1,
     lens |-> {0, 2}, esc |-> MaxEscTimers]

Envs == {Typing, Browsing, Previewing, Leaving}

(* Program constants *)

visibleResults == 5
previewBefore == 5
previewAfter == 10

----------------------------------------------------------------------------
(* Values *)

\* Printable characters that reach the text fields. "p" and "d" are also the
\* second key of the ESC-prefixed Alt sequences.
Chars == {"p", "d"}

\* Runes a tea.KeyMsg of type KeyRunes carries in this model.
Runes == Chars \cup {"j", "k", "pi", "partial"}

KeyTypes == {"backspace", "up", "down", "enter", "tab", "esc", "ctrl+c"}

\* tea.KeyMsg: Type, Runes (one rune, or "" for none), Alt.
KeyMsgs ==
    [Type : {"runes"}, Rune : Runes, Alt : BOOLEAN]
        \cup [Type : KeyTypes, Rune : {""}, Alt : {FALSE}]

\* tea.KeyMsg.String()
KeyStr(msg) ==
    IF msg.Type = "runes"
    THEN IF msg.Alt THEN <<"alt+", msg.Rune>> ELSE <<msg.Rune>>
    ELSE <<msg.Type>>

currentDir == "cwd"

\* search.SearchResult of the i-th output line of a search.
Match(i) == [File |-> (i + 1) \div 2, Line |-> i, Column |-> 1, Text |-> i]

Matches(n) == [i \in 1..n |-> Match(i)]

ResultLists == {Matches(n) : n \in env.lens}

Max(a, b) == IF a > b THEN a ELSE b
Min(a, b) == IF a < b THEN a ELSE b

----------------------------------------------------------------------------
(* preview.LoadPreview *)

\* Variant: the hit line is counted from 0 within the window.
LoadPreviewHitFromZero(file, allLines, lineNum) ==
    LET startLine == IF lineNum - previewBefore < 1 THEN 1 ELSE lineNum - previewBefore
        endLine == IF lineNum + previewAfter > Len(allLines)
                   THEN Len(allLines) ELSE lineNum + previewAfter
        previewLines == [j \in 1..Max(0, endLine - startLine + 1) |->
                            allLines[startLine + j - 1]]
        hitLineInPreview == lineNum - startLine
    IN  IF endLine - startLine + 1 < 0
        THEN [kind |-> "panic"]
        ELSE [kind |-> "ok",
              preview |-> [File |-> file, StartLine |-> startLine,
                           Lines |-> previewLines, HitLine |-> hitLineInPreview]]

\* The window arithmetic of LoadPreview on a file whose lines are allLines.
\* make([]string, 0, endLine-startLine+1) panics when the capacity is negative.
LoadPreview(file, allLines, lineNum) ==
    LET startLine == IF lineNum - previewBefore < 1 THEN 1 ELSE lineNum - previewBefore
        endLine == IF lineNum + previewAfter > Len(allLines)
                   THEN Len(allLines) ELSE lineNum + previewAfter
        previewLines == [j \in 1..Max(0, endLine - startLine + 1) |->
                            allLines[startLine + j - 1]]
        hitLineInPreview == lineNum - startLine + 1
    IN  IF endLine - startLine + 1 < 0
        THEN [kind |-> "panic"]
        ELSE [kind |-> "ok",
              preview |-> [File |-> file, StartLine |-> startLine,
                           Lines |-> previewLines, HitLine |-> hitLineInPreview]]

\* Content of a file in the session model: line i holds i.
FileContent == [i \in 1..FileLines |-> i]

----------------------------------------------------------------------------
(* tui.Model: helpers *)

\* Model.adjustScroll: the new resultsOffset.
AdjustScroll(n, sel, off) ==
    IF n <= visibleResults THEN 0
    ELSE LET o1 == IF sel < off THEN sel ELSE off
             o2 == IF sel >= o1 + visibleResults THEN sel - visibleResults + 1 ELSE o1
             o3 == IF o2 < 0 THEN 0 ELSE o2
             maxOffset == n - visibleResults
         IN  IF o3 > maxOffset THEN maxOffset ELSE o3

\* Variant: loadPreview never returns a command.
LoadPreviewNone(results, sel) == {}

\* Model.loadPreview: the commands it returns (none when nothing is selected).
LoadPreviewCmd(results, sel) ==
    IF sel < 0 \/ sel >= Len(results) THEN {}
    ELSE {[File |-> results[sel + 1].File, Line |-> results[sel + 1].Line]}

\* context.CancelFunc call on the stored handle.
CancelStored == IF searchCancel # 0 THEN ctxDone \cup {searchCancel} ELSE ctxDone

\* Model.triggerSearch, with q and m the field values it reads. kind tells the
\* burst observation who called: "text" (a text change), "same" (handleTextInput
\* without a change), "scope" (a scope switch).
TriggerSearch(q, m, kind) ==
    /\ burst.n < env.triggers
    /\ ctxDone' = CancelStored
    /\ selectedIndex' = -1
    /\ resultsOffset' = 0
    /\ preview' = <<>>
    /\ previewError' = <<>>
    /\ IF q = <<>>
       THEN /\ searchResults' = <<>>
            /\ isSearching' = FALSE
            /\ ticks' = ticks
       ELSE /\ UNCHANGED <<searchResults, isSearching>>
            /\ ticks' = Append(ticks, [Query |-> q, Mask |-> m])
    /\ burst' = IF kind = "text" /\ burst.ok /\ burst.last # "fired"
                THEN [ok |-> TRUE, last |-> IF q = <<>> THEN "none" ELSE "pending",
                      n |-> burst.n + 1]
                ELSE [ok |-> FALSE, last |-> "none", n |-> burst.n + 1]
    /\ UNCHANGED <<searchCancel, searchError, gitRoot, quit, opened, escTicks, cmds, nCtx, loads>>

\* The Alt+P branches of handleKey and handleTextInput.
SwitchProject ==
    IF gitRoot # "" /\ searchScope # "project"
    THEN /\ searchScope' = "project"
         /\ TriggerSearch(query, mask, "scope")
         /\ UNCHANGED <<query, mask, inputMode>>
    ELSE UNCHANGED <<query, mask, inputMode, searchCancel, searchResults,
                     selectedIndex, resultsOffset, isSearching, searchError, preview,
                     previewError, searchScope, gitRoot, quit, opened, ticks, escTicks,
                   cmds, ctxDone, nCtx, loads, burst>>

\* The Alt+D branches of handleKey and handleTextInput.
SwitchDirectory ==
    IF searchScope # "directory"
    THEN /\ searchScope' = "directory"
         /\ TriggerSearch(query, mask, "scope")
         /\ UNCHANGED <<query, mask, inputMode>>
    ELSE UNCHANGED <<query, mask, inputMode, searchCancel, searchResults,
                     selectedIndex, resultsOffset, isSearching, searchError, preview,
                     previewError, searchScope, gitRoot, quit, opened, ticks, escTicks,
                   cmds, ctxDone, nCtx, loads, burst>>

\* Everything but waitingForEscSequence.
allButWaiting == <<query, mask, inputMode, searchCancel, searchResults,
                   selectedIndex, resultsOffset, isSearching, searchError, preview,
                   previewError, searchScope, gitRoot, quit, opened, ticks, escTicks,
                   cmds, ctxDone, nCtx, loads, burst>>

\* Model.handleTextInput
HandleTextInput(msg) ==
    LET keyStr == KeyStr(msg)
        value == IF inputMode = "query" THEN query ELSE mask
        newValue == IF keyStr = <<"backspace">>
                    THEN (IF Len(value) > 0 THEN SubSeq(value, 1, Len(value) - 1)
                          ELSE value)
                    ELSE IF msg.Rune # "" THEN Append(value, msg.Rune) ELSE value
        q == IF inputMode = "query" THEN newValue ELSE query
        m == IF inputMode = "query" THEN mask ELSE newValue
    IN  IF msg.Rune = "pi" THEN SwitchProject
        ELSE IF msg.Rune = "partial" THEN SwitchDirectory
        ELSE IF keyStr = <<"alt+", "p">> THEN SwitchProject
        ELSE IF keyStr = <<"alt+", "d">> THEN SwitchDirectory
        ELSE IF msg.Alt THEN UNCHANGED allButWaiting
        ELSE /\ Len(q) <= env.queryLen
             /\ Len(m) <= env.maskLen
             /\ query' = q
             /\ mask' = m
             /\ TriggerSearch(q, m, IF newValue = value THEN "same" ELSE "text")
             /\ UNCHANGED <<inputMode, searchScope>>

\* Model.handleKey, case "ctrl+c"
Interrupt ==
    /\ ctxDone' = CancelStored
    /\ quit' = TRUE
    /\ UNCHANGED <<query, mask, inputMode, searchCancel, searchResults,
                   selectedIndex, resultsOffset, isSearching, searchError,
                   preview, previewError, searchScope, gitRoot,
                   waitingForEscSequence, opened, ticks,
                   escTicks, cmds, nCtx, loads, burst>>

\* Variant: Enter without a usable selection still ends the session.
ActivateAlways ==
    /\ IF selectedIndex >= 0 /\ selectedIndex < Len(searchResults)
       THEN opened' = Append(opened,
                         [File |-> searchResults[selectedIndex + 1].File,
                          Line |-> searchResults[selectedIndex + 1].Line,
                          Column |-> searchResults[selectedIndex + 1].Column])
       ELSE opened' = opened
    /\ quit' = TRUE
    /\ UNCHANGED <<query, mask, inputMode, searchCancel, searchResults,
                   selectedIndex, resultsOffset, isSearching, searchError,
                   preview, previewError, searchScope, gitRoot,
                   waitingForEscSequence, ticks, escTicks, cmds,
                   ctxDone, nCtx, loads, burst>>

\* Model.handleKey, case "enter": editor.OpenFile, then tea.Quit.
Activate ==
    /\ IF selectedIndex >= 0 /\ selectedIndex < Len(searchResults)
       THEN /\ opened' = Append(opened,
                             [File |-> searchResults[selectedIndex + 1].File,
                              Line |-> searchResults[selectedIndex + 1].Line,
                              Column |-> searchResults[selectedIndex + 1].Column])
            /\ quit' = TRUE
       ELSE UNCHANGED <<opened, quit>>
    /\ UNCHANGED <<query, mask, inputMode, searchCancel, searchResults,
                   selectedIndex, resultsOffset, isSearching, searchError,
                   preview, previewError, searchScope, gitRoot,
                   waitingForEscSequence, ticks, escTicks, cmds,
                   ctxDone, nCtx, loads, burst>>

\* Model.handleKey
HandleKey(msg) ==
    LET keyStr == KeyStr(msg) IN
    /\ ~quit
    /\ IF msg.Rune = "pi" THEN SwitchProject /\ UNCHANGED waitingForEscSequence
       ELSE IF msg.Rune = "partial" THEN SwitchDirectory /\ UNCHANGED waitingForEscSequence
       ELSE IF msg.Alt /\ msg.Rune = "p" THEN SwitchProject /\ UNCHANGED waitingForEscSequence
       ELSE IF msg.Alt /\ msg.Rune = "d"
            THEN SwitchDirectory /\ UNCHANGED waitingForEscSequence
       ELSE IF keyStr = <<"ctrl+c">> THEN Interrupt
       ELSE IF keyStr = <<"esc">>
            THEN /\ escTicks < env.esc
                 /\ waitingForEscSequence' = TRUE
                 /\ escTicks' = escTicks + 1
                 /\ UNCHANGED <<query, mask, inputMode, searchCancel, searchResults,
                                selectedIndex, resultsOffset, isSearching, searchError,
                                preview, previewError, searchScope, gitRoot, quit,
                                opened, ticks, cmds, ctxDone, nCtx, loads,
                                burst>>
       ELSE IF keyStr = <<"tab">>
            THEN /\ inputMode' = IF inputMode = "query" THEN "mask" ELSE "query"
                 /\ UNCHANGED <<query, mask, searchCancel, searchResults,
                                selectedIndex, resultsOffset, isSearching, searchError,
                                preview, previewError, searchScope, gitRoot,
                                waitingForEscSequence, quit, opened, ticks,
                                escTicks, cmds, ctxDone, nCtx, loads, burst>>
       ELSE IF keyStr = <<"up">> \/ keyStr = <<"k">>
            THEN /\ IF selectedIndex > 0
                    THEN /\ selectedIndex' = selectedIndex - 1
                         /\ resultsOffset' = AdjustScroll(Len(searchResults),
                                                selectedIndex - 1, resultsOffset)
                         /\ loads' = loads \cup
                                LoadPreviewCmd(searchResults, selectedIndex - 1)
                         /\ Cardinality(loads') <= env.loads
                    ELSE UNCHANGED <<selectedIndex, resultsOffset, loads>>
                 /\ UNCHANGED <<query, mask, inputMode, searchCancel, searchResults,
                                isSearching, searchError, preview, previewError,
                                searchScope, gitRoot, waitingForEscSequence, quit,
                                opened, ticks, escTicks, cmds, ctxDone,
                                nCtx, burst>>
       ELSE IF keyStr = <<"down">> \/ keyStr = <<"j">>
            THEN /\ IF selectedIndex < Len(searchResults) - 1
                    THEN /\ selectedIndex' = selectedIndex + 1
                         /\ resultsOffset' = AdjustScroll(Len(searchResults),
                                                selectedIndex + 1, resultsOffset)
                         /\ loads' = loads \cup
                                LoadPreviewCmd(searchResults, selectedIndex + 1)
                         /\ Cardinality(loads') <= env.loads
                    ELSE UNCHANGED <<selectedIndex, resultsOffset, loads>>
                 /\ UNCHANGED <<query, mask, inputMode, searchCancel, searchResults,
                                isSearching, searchError, preview, previewError,
                                searchScope, gitRoot, waitingForEscSequence, quit,
                                opened, ticks, escTicks, cmds, ctxDone,
                                nCtx, burst>>
       ELSE IF keyStr = <<"enter">> THEN Activate
       ELSE IF waitingForEscSequence
            THEN /\ waitingForEscSequence' = FALSE
                 /\ IF msg.Rune = "p" THEN SwitchProject
                    ELSE IF msg.Rune = "d" THEN SwitchDirectory
                    ELSE UNCHANGED allButWaiting
       ELSE HandleTextInput(msg) /\ UNCHANGED waitingForEscSequence

\* Model.handleStartSearch, "Only start if query hasn't changed".
\* Variant: the timer message is accepted whatever the text has become.
SnapshotAlways(msg) == msg.Query = msg.Query /\ msg.Mask = msg.Mask

SnapshotCurrent(msg) == query = msg.Query /\ mask = msg.Mask

\* Variant: every request searches the working directory.
SearchPathCwd == currentDir

\* Model.handleStartSearch, "Determine search path based on scope".
SearchPath == IF searchScope = "project" /\ gitRoot # "" THEN gitRoot ELSE currentDir

\* Variant: issuing a request leaves a recorded error in place.
HandleStartSearchKeepError(i) ==
    LET msg == ticks[i]
        ctx == nCtx + 1
        searchPath == SearchPath
    IN
    /\ ~quit
    /\ i \in 1..Len(ticks)
    /\ ticks' = [j \in 1..(Len(ticks) - 1) |-> IF j < i THEN ticks[j] ELSE ticks[j + 1]]
    /\ burst' = IF burst.ok /\ i = Len(ticks) /\ burst.last = "pending"
                THEN [burst EXCEPT !.last = "fired"] ELSE burst
    /\ IF ~SnapshotCurrent(msg)
       THEN UNCHANGED <<searchCancel, isSearching, searchError, nCtx, cmds>>
       ELSE /\ nCtx < env.searches
            /\ searchCancel' = ctx
            /\ isSearching' = TRUE
            /\ searchError' = searchError
            /\ nCtx' = ctx
            /\ cmds' = cmds \cup {[ctx |-> ctx, Query |-> msg.Query, Mask |-> msg.Mask,
                                    Path |-> searchPath]}
    /\ UNCHANGED <<query, mask, inputMode, searchResults, selectedIndex,
                   resultsOffset, preview, previewError, searchScope, gitRoot,
                   waitingForEscSequence, quit, opened, escTicks, ctxDone,
                   loads>>

\* Model.handleStartSearch on the i-th pending tea.Tick message; the command it
\* returns starts in cmds at pc "call".
HandleStartSearch(i) ==
    LET msg == ticks[i]
        ctx == nCtx + 1
        searchPath == SearchPath
    IN
    /\ ~quit
    /\ i \in 1..Len(ticks)
    /\ ticks' = [j \in 1..(Len(ticks) - 1) |-> IF j < i THEN ticks[j] ELSE ticks[j + 1]]
    /\ burst' = IF burst.ok /\ i = Len(ticks) /\ burst.last = "pending"
                THEN [burst EXCEPT !.last = "fired"] ELSE burst
    /\ IF ~SnapshotCurrent(msg)
       THEN UNCHANGED <<searchCancel, isSearching, searchError, nCtx, cmds>>
       ELSE /\ nCtx < env.searches
            /\ searchCancel' = ctx
            /\ isSearching' = TRUE
            /\ searchError' = <<>>
            /\ nCtx' = ctx
            /\ cmds' = cmds \cup {[ctx |-> ctx, Query |-> msg.Query, Mask |-> msg.Mask,
                                    Path |-> searchPath]}
    /\ UNCHANGED <<query, mask, inputMode, searchResults, selectedIndex,
                   resultsOffset, preview, previewError, searchScope, gitRoot,
                   waitingForEscSequence, quit, opened, escTicks, ctxDone,
                   loads>>

\* Model.Update, case escTimeoutMsg
HandleEscTimeout ==
    /\ ~quit
    /\ escTicks > 0
    /\ escTicks' = escTicks - 1
    /\ IF waitingForEscSequence
       THEN /\ waitingForEscSequence' = FALSE
            /\ ctxDone' = CancelStored
            /\ quit' = TRUE
       ELSE UNCHANGED <<waitingForEscSequence, ctxDone, quit>>
    /\ UNCHANGED <<query, mask, inputMode, searchCancel, searchResults, selectedIndex,
                   resultsOffset, isSearching, searchError, preview, previewError,
                   searchScope, gitRoot, opened, ticks, cmds, nCtx, loads,
                   burst>>

\* Model.handleSearchResult
\* Variant: an error completion keeps the previous result set.
HandleSearchResultKeep(msg) ==
    /\ isSearching' = FALSE
    /\ searchCancel' = 0
    /\ IF msg.Error # <<>>
       THEN /\ searchError' = msg.Error
            /\ UNCHANGED <<searchResults, selectedIndex, resultsOffset, loads>>
       ELSE /\ searchResults' = msg.Results
            /\ searchError' = <<>>
            /\ IF Len(msg.Results) > 0 /\ selectedIndex < 0
               THEN /\ selectedIndex' = 0
                    /\ resultsOffset' = 0
                    /\ loads' = loads \cup LoadPreviewCmd(msg.Results, 0)
                    /\ Cardinality(loads') <= env.loads
               ELSE UNCHANGED <<selectedIndex, resultsOffset, loads>>

\* Model.handleSearchResult
HandleSearchResult(msg) ==
    /\ isSearching' = FALSE
    /\ searchCancel' = 0
    /\ IF msg.Error # <<>>
       THEN /\ searchError' = msg.Error
            /\ searchResults' = <<>>
            /\ UNCHANGED <<selectedIndex, resultsOffset, loads>>
       ELSE /\ searchResults' = msg.Results
            /\ searchError' = <<>>
            /\ IF Len(msg.Results) > 0 /\ selectedIndex < 0
               THEN /\ selectedIndex' = 0
                    /\ resultsOffset' = 0
                    /\ loads' = loads \cup LoadPreviewCmd(msg.Results, 0)
                    /\ Cardinality(loads') <= env.loads
               ELSE UNCHANGED <<selectedIndex, resultsOffset, loads>>

\* Variant: a failed load keeps the preview stored before it.
HandlePreviewLoadedKeep(msg) ==
    IF msg.Error # <<>>
    THEN /\ previewError' = msg.Error
         /\ preview' = preview
    ELSE /\ preview' = msg.Preview
         /\ previewError' = <<>>

\* Model.handlePreviewLoaded
HandlePreviewLoaded(msg) ==
    IF msg.Error # <<>>
    THEN /\ previewError' = msg.Error
         /\ preview' = <<>>
    ELSE /\ preview' = msg.Preview
         /\ previewError' = <<>>

----------------------------------------------------------------------------
(* Commands running off the event loop, and the delivery of their messages *)

\* What "msg := <-resultChan" can yield for command c: the adapter's message,
\* or, when the adapter returned on ctx.Done() without sending, the zero value
\* received from the closed channel.
AdapterMsgs(c) ==
    {[SearchID |-> c.ctx, Results |-> r, Error |-> <<>>] : r \in ResultLists}
        \cup {[SearchID |-> c.ctx, Results |-> <<>>, Error |-> <<"ripgrep failed">>]}
        \cup (IF c.ctx \in ctxDone
              THEN {[SearchID |-> 0, Results |-> <<>>, Error |-> <<>>]}
              ELSE {})

\* The search command returns msg; Update dispatches it to handleSearchResult.
SearchDeliver(c, msg) ==
    /\ ~quit
    /\ c \in cmds
    /\ msg \in AdapterMsgs(c)
    /\ cmds' = cmds \ {c}
    /\ HandleSearchResult(msg)
    /\ UNCHANGED <<query, mask, inputMode, preview, previewError, searchScope,
                   gitRoot, waitingForEscSequence, quit, opened, ticks,
                   escTicks, ctxDone, nCtx, burst>>

\* What the preview command of loadPreview returns for load l: LoadPreview's
\* result on the file, or its error when the file cannot be opened or read.
PreviewMsgs(l) ==
    LET r == LoadPreview(l.File, FileContent, l.Line)
    IN  {[Preview |-> <<>>, Error |-> <<"failed to open file">>]}
            \cup (IF r.kind = "ok"
                  THEN {[Preview |-> <<r.preview>>, Error |-> <<>>]} ELSE {})

\* The preview command returns msg; Update dispatches it to handlePreviewLoaded.
PreviewDeliver(l, msg) ==
    /\ ~quit
    /\ l \in loads
    /\ msg \in PreviewMsgs(l)
    /\ loads' = loads \ {l}
    /\ HandlePreviewLoaded(msg)
    /\ UNCHANGED <<query, mask, inputMode, searchCancel, searchResults, selectedIndex,
                   resultsOffset, isSearching, searchError, searchScope, gitRoot,
                   waitingForEscSequence, quit, opened, ticks, escTicks,
                   cmds, ctxDone, nCtx, burst>>

----------------------------------------------------------------------------
(* The session *)

\* tui.New
New ==
    /\ query = <<>> /\ mask = <<>> /\ inputMode = "query"
    /\ searchCancel = 0 /\ searchResults = <<>>
    /\ selectedIndex = -1 /\ resultsOffset = 0
    /\ isSearching = FALSE /\ searchError = <<>>
    /\ preview = <<>> /\ previewError = <<>>
    /\ gitRoot \in {"", "root"}
    /\ searchScope = IF gitRoot # "" THEN "project" ELSE "directory"
    /\ waitingForEscSequence = FALSE
    /\ quit = FALSE /\ opened = <<>>
    /\ ticks = <<>> /\ escTicks = 0 /\ cmds = {} /\ ctxDone = {} /\ nCtx = 0
    /\ loads = {}
    /\ burst = [ok |-> TRUE, last |-> "none", n |-> 0]

Init ==
    /\ New
    /\ env \in Envs
    /\ rg = <<>>
    /\ pl = <<>>
    /\ sr = <<>>
    /\ pv = <<>>

fixed == <<env, rg, pl, sr, pv>>

\* Update, case tea.KeyMsg
Key == (\E msg \in KeyMsgs : HandleKey(msg)) /\ UNCHANGED fixed

\* Update, case startSearchMsg: one pending debounce timer fires
StartSearch == (\E i \in 1..Len(ticks) : HandleStartSearch(i)) /\ UNCHANGED fixed

\* Update, case escTimeoutMsg
EscTimeout == HandleEscTimeout /\ UNCHANGED fixed

\* Update, case search.SearchResultMsg: one search command completes
SearchResult ==
    (\E c \in cmds : \E msg \in AdapterMsgs(c) : SearchDeliver(c, msg)) /\ UNCHANGED fixed

\* Update, case previewLoadedMsg: one preview command completes
PreviewLoaded ==
    (\E l \in loads : \E msg \in PreviewMsgs(l) : PreviewDeliver(l, msg)) /\ UNCHANGED fixed

Next ==
    \/ Key
    \/ StartSearch
    \/ EscTimeout
    \/ SearchResult
    \/ PreviewLoaded

Spec == Init /\ [][Next]_vars

----------------------------------------------------------------------------
(* search.ParseVimgrepLine *)

Digit == <<"0", "1", "2", "3", "4", "5", "6", "7", "8", "9">>

DigitValue(ch) == CHOOSE d \in 0..9 : Digit[d + 1] = ch

IsDigit(ch) == \E d \in 0..9 : Digit[d + 1] = ch

RECURSIVE DigitsValue(_)
DigitsValue(s) ==
    IF s = <<>> THEN 0
    ELSE 10 * DigitsValue(SubSeq(s, 1, Len(s) - 1)) + DigitValue(s[Len(s)])

\* strconv.Atoi: an optional sign, then one or more decimal digits.
Atoi(s) ==
    LET signed == Len(s) > 0 /\ s[1] \in {"+", "-"}
        digits == IF signed THEN SubSeq(s, 2, Len(s)) ELSE s
    IN  IF digits = <<>> \/ \E i \in 1..Len(digits) : ~IsDigit(digits[i])
        THEN [ok |-> FALSE, val |-> 0]
        ELSE [ok |-> TRUE,
              val |-> IF signed /\ s[1] = "-" THEN 0 - DigitsValue(digits)
                      ELSE DigitsValue(digits)]

\* Position of the first ":" of s at or after from, 0 when there is none.
IndexColon(s, from) ==
    IF \E i \in from..Len(s) : s[i] = ":"
    THEN CHOOSE i \in from..Len(s) : s[i] = ":" /\ \A j \in from..(i - 1) : s[j] # ":"
    ELSE 0

\* Variant: the fourth field ends at the next ":" (a split without a limit).
SplitN4Cut(line) ==
    LET i1 == IndexColon(line, 1)
        i2 == IF i1 = 0 THEN 0 ELSE IndexColon(line, i1 + 1)
        i3 == IF i2 = 0 THEN 0 ELSE IndexColon(line, i2 + 1)
        i4 == IF i3 = 0 THEN 0 ELSE IndexColon(line, i3 + 1)
    IN  IF i1 = 0 THEN <<line>>
        ELSE IF i2 = 0 THEN <<SubSeq(line, 1, i1 - 1), SubSeq(line, i1 + 1, Len(line))>>
        ELSE IF i3 = 0
             THEN <<SubSeq(line, 1, i1 - 1), SubSeq(line, i1 + 1, i2 - 1),
                    SubSeq(line, i2 + 1, Len(line))>>
        ELSE <<SubSeq(line, 1, i1 - 1), SubSeq(line, i1 + 1, i2 - 1),
               SubSeq(line, i2 + 1, i3 - 1),
               SubSeq(line, i3 + 1, IF i4 = 0 THEN Len(line) ELSE i4 - 1)>>

\* strings.SplitN(line, ":", 4)
SplitN4(line) ==
    LET i1 == IndexColon(line, 1)
        i2 == IF i1 = 0 THEN 0 ELSE IndexColon(line, i1 + 1)
        i3 == IF i2 = 0 THEN 0 ELSE IndexColon(line, i2 + 1)
    IN  IF i1 = 0 THEN <<line>>
        ELSE IF i2 = 0 THEN <<SubSeq(line, 1, i1 - 1), SubSeq(line, i1 + 1, Len(line))>>
        ELSE IF i3 = 0
             THEN <<SubSeq(line, 1, i1 - 1), SubSeq(line, i1 + 1, i2 - 1),
                    SubSeq(line, i2 + 1, Len(line))>>
        ELSE <<SubSeq(line, 1, i1 - 1), SubSeq(line, i1 + 1, i2 - 1),
               SubSeq(line, i2 + 1, i3 - 1), SubSeq(line, i3 + 1, Len(line))>>

\* search.ParseVimgrepLine
ParseVimgrepLine(line) ==
    LET parts == SplitN4(line)
    IN  IF Len(parts) < 4 THEN [ok |-> FALSE]
        ELSE IF ~Atoi(parts[2]).ok THEN [ok |-> FALSE]
        ELSE IF ~Atoi(parts[3]).ok THEN [ok |-> FALSE]
        ELSE [ok |-> TRUE,
              result |-> [File |-> parts[1], Line |-> Atoi(parts[2]).val,
                          Column |-> Atoi(parts[3]).val, Text |-> parts[4]]]

----------------------------------------------------------------------------
(* search.Searcher.Search: one call, its goroutine, the backend process and   *)
(* the command of handleStartSearch that receives from the result channel.    *)

\* Output lines the backend process writes in this model.
SampleLines ==
    {<<"f", ":", "2", ":", "3", ":", "x">>,
     <<"g", ":", "1", ":", "1", ":", "x", ":", "y">>,
     <<"f", ":", "x", ":", "3", ":", "x">>,
     <<"f", "2">>}

RECURSIVE SeqsUpTo(_, _)
SeqsUpTo(S, n) ==
    IF n = 0 THEN {<<>>}
    ELSE SeqsUpTo(S, n - 1) \cup
             {Append(q, x) : q \in {r \in SeqsUpTo(S, n - 1) : Len(r) = n - 1}, x \in S}

RECURSIVE Digits(_)
\* The decimal digits of n, as fmt prints an exit status.
Digits(n) == IF n < 10 THEN <<Digit[n + 1]>> ELSE Append(Digits(n \div 10), Digit[(n % 10) + 1])

\* (*exec.ExitError).Error() of a process that exited with a non-zero status.
ExitStatusText(status) ==
    <<"e", "x", "i", "t", " ", "s", "t", "a", "t", "u", "s", " ">> \o Digits(status)

\* (*exec.ExitError).Error() of a process killed through its context.
KilledText == <<"s", "i", "g", "n", "a", "l", ":", " ", "k", "i", "l", "l", "e", "d">>

\* strings.Contains
Contains(s, substr) ==
    \E i \in 1..(Len(s) - Len(substr) + 1) : SubSeq(s, i, i + Len(substr) - 1) = substr

\* Searcher.Search, the test of cmd.Wait's error for "no matches".
IsNoMatchExit(errText) == Contains(errText, ExitStatusText(1))

\* The message Search sends after cmd.Wait returned err ("" for nil).
WaitMsg(id, errText, results) ==
    IF errText # <<>>
    THEN IF IsNoMatchExit(errText)
         THEN [SearchID |-> id, Results |-> <<>>, Error |-> <<>>]
         ELSE [SearchID |-> id, Results |-> <<>>, Error |-> <<"ripgrep failed">>]
    ELSE [SearchID |-> id, Results |-> results, Error |-> <<>>]

\* Zero value of SearchResultMsg, received from a closed empty channel.
ZeroMsg == [SearchID |-> 0, Results |-> <<>>, Error |-> <<>>]

InitSearch ==
    /\ New /\ gitRoot = ""
    /\ env = Typing
    /\ pl = <<>>
    /\ sr = <<>>
    /\ pv = <<>>
    /\ \E out \in SeqsUpTo(SampleLines, MaxOutLines), exit \in 0..MaxExit,
          fault \in {"none", "pipe", "start", "read"} :
          rg = [out |-> out, exit |-> exit, fault |-> fault,
                pc |-> "pipe", ctxDone |-> FALSE, proc |-> "none", avail |-> 0,
                pos |-> 0, results |-> <<>>, chan |-> <<>>, closed |-> FALSE,
                got |-> <<>>]

\* Variant: the channel stays open after the send.
SendNoClose(msg) == [rg EXCEPT !.chan = Append(@, msg), !.pc = "done"]

\* resultChan <- msg; return (the deferred close(resultChan) runs).
SendAndClose(msg) == [rg EXCEPT !.chan = Append(@, msg), !.closed = TRUE, !.pc = "done"]

\* cmd.StdoutPipe()
RgPipe ==
    /\ rg.pc = "pipe"
    /\ rg' = IF rg.fault = "pipe"
             THEN SendAndClose([SearchID |-> 1, Results |-> <<>>,
                                Error |-> <<"failed to create stdout pipe">>])
             ELSE [rg EXCEPT !.pc = "start"]
    /\ UNCHANGED <<modelVars, env, pl, sr, pv>>

\* cmd.Start(): fails when the binary cannot be started or ctx is already done.
RgStart ==
    /\ rg.pc = "start"
    /\ rg' = IF rg.fault = "start" \/ rg.ctxDone
             THEN SendAndClose([SearchID |-> 1, Results |-> <<>>,
                                Error |-> <<"failed to start ripgrep">>])
             ELSE [rg EXCEPT !.pc = "scan", !.proc = "running"]
    /\ UNCHANGED <<modelVars, env, pl, sr, pv>>

\* The backend process writes its next output line.
ProcWrite ==
    /\ rg.proc = "running" /\ rg.avail < Len(rg.out)
    /\ rg' = [rg EXCEPT !.avail = @ + 1]
    /\ UNCHANGED <<modelVars, env, pl, sr, pv>>

\* The backend process exits by itself with its exit status.
ProcExit ==
    /\ rg.proc = "running" /\ rg.avail = Len(rg.out)
    /\ rg' = [rg EXCEPT !.proc = "exited"]
    /\ UNCHANGED <<modelVars, env, pl, sr, pv>>

\* exec.CommandContext kills the running process once ctx is done.
ProcKill ==
    /\ rg.proc = "running" /\ rg.ctxDone
    /\ rg' = [rg EXCEPT !.proc = "killed"]
    /\ UNCHANGED <<modelVars, env, pl, sr, pv>>

\* The caller invokes the request's context.CancelFunc.
RgCancel ==
    /\ ~rg.ctxDone /\ rg.pc # "done"
    /\ rg' = [rg EXCEPT !.ctxDone = TRUE]
    /\ UNCHANGED <<modelVars, env, pl, sr, pv>>

\* Variant: a line that does not parse ends the call with an error.
RgScanLineFatal ==
    /\ rg.pc = "scan" /\ rg.pos < rg.avail
    /\ ~(rg.fault = "read")
    /\ rg' = IF rg.ctxDone
             THEN [rg EXCEPT !.closed = TRUE, !.pc = "done",
                             !.proc = IF @ = "running" THEN "killed" ELSE @]
             ELSE LET r == ParseVimgrepLine(rg.out[rg.pos + 1])
                  IN  IF r.ok
                      THEN [rg EXCEPT !.pos = @ + 1, !.results = Append(@, r.result)]
                      ELSE SendAndClose([SearchID |-> 1, Results |-> <<>>,
                                         Error |-> <<"invalid vimgrep format">>])
    /\ UNCHANGED <<modelVars, env, pl, sr, pv>>

\* Variant: the return on ctx.Done() leaves the result channel open.
RgScanLineNoClose ==
    /\ rg.pc = "scan" /\ rg.pos < rg.avail
    /\ ~(rg.fault = "read")
    /\ rg' = IF rg.ctxDone
             THEN [rg EXCEPT !.pc = "done",
                             !.proc = IF @ = "running" THEN "killed" ELSE @]
             ELSE LET r == ParseVimgrepLine(rg.out[rg.pos + 1])
                  IN  [rg EXCEPT !.pos = @ + 1,
                                 !.results = IF r.ok THEN Append(@, r.result) ELSE @]
    /\ UNCHANGED <<modelVars, env, pl, sr, pv>>

\* One iteration of "for scanner.Scan()": a line was read.
RgScanLine ==
    /\ rg.pc = "scan" /\ rg.pos < rg.avail
    /\ ~(rg.fault = "read")
    /\ rg' = IF rg.ctxDone
             THEN [rg EXCEPT !.closed = TRUE, !.pc = "done",
                             !.proc = IF @ = "running" THEN "killed" ELSE @]
             ELSE LET r == ParseVimgrepLine(rg.out[rg.pos + 1])
                  IN  [rg EXCEPT !.pos = @ + 1,
                                 !.results = IF r.ok THEN Append(@, r.result) ELSE @]
    /\ UNCHANGED <<modelVars, env, pl, sr, pv>>

\* scanner.Scan() returns false: end of output, or a read error.
RgScanEnd ==
    /\ rg.pc = "scan"
    /\ \/ /\ rg.fault = "read" /\ rg.pos < rg.avail
          /\ rg' = SendAndClose([SearchID |-> 1, Results |-> <<>>,
                                 Error |-> <<"failed to read output">>])
       \/ /\ rg.pos = rg.avail /\ rg.proc \in {"exited", "killed"}
          /\ rg' = [rg EXCEPT !.pc = "wait"]
    /\ UNCHANGED <<modelVars, env, pl, sr, pv>>

\* cmd.Wait() and the message that follows it.
RgWait ==
    /\ rg.pc = "wait"
    /\ LET errText == IF rg.proc = "killed" THEN KilledText
                      ELSE IF rg.exit = 0 THEN <<>> ELSE ExitStatusText(rg.exit)
       IN  rg' = SendAndClose(WaitMsg(1, errText, rg.results))
    /\ UNCHANGED <<modelVars, env, pl, sr, pv>>

\* handleStartSearch's command: msg := <-resultChan
RgReceive ==
    /\ rg.got = <<>>
    /\ \/ rg.chan # <<>> /\ rg' = [rg EXCEPT !.got = <<rg.chan[1]>>, !.chan = Tail(@)]
       \/ rg.chan = <<>> /\ rg.closed /\ rg' = [rg EXCEPT !.got = <<ZeroMsg>>]
    /\ UNCHANGED <<modelVars, env, pl, sr, pv>>

NextSearch ==
    \/ RgPipe
    \/ RgStart
    \/ ProcWrite
    \/ ProcExit
    \/ ProcKill
    \/ RgCancel
    \/ RgScanLine
    \/ RgScanEnd
    \/ RgWait
    \/ RgReceive

SpecSearch == InitSearch /\ [][NextSearch]_vars

----------------------------------------------------------------------------
(* preview.LoadPreview: one call *)

InitPreview ==
    /\ New /\ gitRoot = ""
    /\ env = Typing
    /\ rg = <<>>
    /\ sr = <<>>
    /\ pv = <<>>
    /\ \E n \in 0..FileLines, t \in (0 - MaxOver)..(FileLines + MaxOver),
          fails \in BOOLEAN :
          pl = [n |-> n, t |-> t, fails |-> fails, pc |-> "call", res |-> <<>>]

\* LoadPreview(file, lineNum) on a file of pl.n lines; os.Open or the scanner
\* fails when pl.fails.
PreviewCall ==
    /\ pl.pc = "call"
    /\ pl' = [pl EXCEPT !.pc = "done",
                        !.res = IF pl.fails THEN [kind |-> "error"]
                                ELSE LoadPreview("f", [i \in 1..pl.n |-> i], pl.t)]
    /\ UNCHANGED <<modelVars, env, rg, sr, pv>>

NextPreview == PreviewCall

SpecPreview == InitPreview /\ [][NextPreview]_vars

----------------------------------------------------------------------------
(* search.Searcher: overlapping calls of Search. Each search command runs in  *)
(* its own goroutine and starts with "s.searchID++; currentID := s.searchID"  *)
(* on the shared Searcher, without synchronisation: an unsynchronised         *)
(* read-modify-write followed by a read, interleaved here step by step.       *)

Calls == 1..MaxCalls

\* search.NewSearcher, and the commands not yet started by the runtime.
InitIDs ==
    /\ New /\ gitRoot = ""
    /\ env = Typing
    /\ rg = <<>>
    /\ pl = <<>>
    /\ pv = <<>>
    /\ sr = [searchID |-> 0,
             call |-> [i \in Calls |-> [pc |-> "cmd", tmp |-> 0, currentID |-> 0]]]

\* The runtime starts the i-th search command, in the order in which
\* handleStartSearch returned them.
IdDispatch ==
    /\ \E i \in Calls :
          /\ sr.call[i].pc = "cmd"
          /\ \A j \in Calls : j < i => sr.call[j].pc # "cmd"
          /\ sr' = [sr EXCEPT !.call[i].pc = "load"]
    /\ UNCHANGED <<modelVars, env, rg, pl, pv>>

\* s.searchID++, the read of the field.
IdLoad ==
    /\ \E i \in Calls :
          /\ sr.call[i].pc = "load"
          /\ sr' = [sr EXCEPT !.call[i].pc = "store", !.call[i].tmp = sr.searchID]
    /\ UNCHANGED <<modelVars, env, rg, pl, pv>>

\* s.searchID++, the write of the incremented value.
IdStore ==
    /\ \E i \in Calls :
          /\ sr.call[i].pc = "store"
          /\ sr' = [sr EXCEPT !.call[i].pc = "read", !.searchID = sr.call[i].tmp + 1]
    /\ UNCHANGED <<modelVars, env, rg, pl, pv>>

\* currentID := s.searchID
IdRead ==
    /\ \E i \in Calls :
          /\ sr.call[i].pc = "read"
          /\ sr' = [sr EXCEPT !.call[i].pc = "go", !.call[i].currentID = sr.searchID]
    /\ UNCHANGED <<modelVars, env, rg, pl, pv>>

NextIDs ==
    \/ IdDispatch
    \/ IdLoad
    \/ IdStore
    \/ IdRead

SpecIDs == InitIDs /\ [][NextIDs]_vars

----------------------------------------------------------------------------
(* search.ParseVimgrepLine: one call, on a line written by the backend from   *)
(* a path, a line number, a column and a text, or on an arbitrary line.       *)

\* A decimal integer as the backend prints it.
FormatInt(n) == IF n < 0 THEN <<"-">> \o Digits(0 - n) ELSE Digits(n)

\* The vimgrep output line for a match: path:line:column:text
FormatLine(path, line, column, text) ==
    path \o <<":">> \o FormatInt(line) \o <<":">> \o FormatInt(column) \o <<":">> \o text

\* Paths (without ":") and matched texts (with and without ":").
ParsePaths == {<<>>, <<"f">>, <<"f", "-", "2">>}

ParseTexts == {<<>>, <<"x">>, <<":">>, <<"x", ":", "1">>, <<":", "2", ":">>}

ParseInts == (0 - MaxInt)..MaxInt

\* Characters of the arbitrary lines.
RawChars == {":", "1", "x", "-"}

InitParse ==
    /\ New /\ gitRoot = ""
    /\ env = Typing
    /\ rg = <<>>
    /\ pl = <<>>
    /\ sr = <<>>
    /\ \/ \E path \in ParsePaths, line \in ParseInts, column \in ParseInts,
             text \in ParseTexts :
             pv = [formatted |-> TRUE, path |-> path, line |-> line,
                   column |-> column, text |-> text,
                   raw |-> FormatLine(path, line, column, text),
                   pc |-> "call", res |-> [ok |-> FALSE]]
       \/ \E raw \in SeqsUpTo(RawChars, MaxRawLen) :
             pv = [formatted |-> FALSE, path |-> <<>>, line |-> 0, column |-> 0,
                   text |-> <<>>, raw |-> raw, pc |-> "call", res |-> [ok |-> FALSE]]

\* ParseVimgrepLine(pv.raw)
ParseCall ==
    /\ pv.pc = "call"
    /\ pv' = [pv EXCEPT !.pc = "done", !.res = ParseVimgrepLine(pv.raw)]
    /\ UNCHANGED <<modelVars, env, rg, pl, sr>>

NextParse == ParseCall

SpecParse == InitParse /\ [][NextParse]_vars

----------------------------------------------------------------------------
(* One search request from handleStartSearch to handleSearchResult: the      *)
(* worker of SpecSearch, the command awaiting its channel, and Update handing *)
(* the received message to handleSearchResult. The Go scheduler runs every    *)
(* goroutine that can take a step, the backend process writes its output and  *)
(* exits or is killed, and the event loop handles every message it is sent;   *)
(* nothing obliges the user to cancel.                                        *)

\* Exit statuses of the backend: success, no match, failure.
CompletionExits == {0, 1, 2}

\* The state right after handleStartSearch issued request 1 for the query "d".
InitCompletion ==
    /\ query = <<"d">> /\ mask = <<>> /\ inputMode = "query"
    /\ searchCancel = 1 /\ searchResults = <<>>
    /\ selectedIndex = -1 /\ resultsOffset = 0
    /\ isSearching = TRUE /\ searchError = <<>>
    /\ preview = <<>> /\ previewError = <<>>
    /\ gitRoot = "" /\ searchScope = "directory"
    /\ waitingForEscSequence = FALSE
    /\ quit = FALSE /\ opened = <<>>
    /\ ticks = <<>> /\ escTicks = 0 /\ ctxDone = {} /\ nCtx = 1
    /\ cmds = {[ctx |-> 1, Query |-> <<"d">>, Mask |-> <<>>, Path |-> currentDir]}
    /\ loads = {}
    /\ burst = [ok |-> TRUE, last |-> "fired", n |-> 1]
    /\ env = Typing
    /\ pl = <<>>
    /\ sr = <<>>
    /\ pv = <<>>
    /\ \E out \in SeqsUpTo(SampleLines, MaxOutLines), exit \in CompletionExits,
          fault \in {"none", "pipe", "start", "read"} :
          rg = [out |-> out, exit |-> exit, fault |-> fault,
                pc |-> "pipe", ctxDone |-> FALSE, proc |-> "none", avail |-> 0,
                pos |-> 0, results |-> <<>>, chan |-> <<>>, closed |-> FALSE,
                got |-> <<>>]

\* Update, case search.SearchResultMsg: the command has returned the message
\* it received and handleSearchResult handles it.
RgDeliver ==
    /\ rg.got # <<>>
    /\ cmds # {}
    /\ cmds' = {}
    /\ HandleSearchResult(rg.got[1])
    /\ UNCHANGED <<query, mask, inputMode, preview, previewError, searchScope,
                   gitRoot, waitingForEscSequence, quit, opened, ticks,
                   escTicks, ctxDone, nCtx, burst>>
    /\ UNCHANGED fixed

NextCompletion ==
    \/ RgPipe
    \/ RgStart
    \/ ProcWrite
    \/ ProcExit
    \/ ProcKill
    \/ RgCancel
    \/ RgScanLine
    \/ RgScanEnd
    \/ RgWait
    \/ RgReceive
    \/ RgDeliver

\* The steps of the worker goroutine started by Search.
RgWorker == RgPipe \/ RgStart \/ RgScanLine \/ RgScanEnd \/ RgWait

\* The steps of the backend process.
RgProcess == ProcWrite \/ ProcExit \/ ProcKill

SpecCompletion ==
    /\ InitCompletion /\ [][NextCompletion]_vars
    /\ WF_vars(RgWorker) /\ WF_vars(RgProcess)
    /\ WF_vars(RgReceive) /\ WF_vars(RgDeliver)

----------------------------------------------------------------------------
(* Claims about the session *)

\* The request issued last is the current one: context ids count the requests.
Current(c) == c.ctx = nCtx

NavKeys == {k \in KeyMsgs : KeyStr(k) \in {<<"up">>, <<"down">>, <<"j">>, <<"k">>}}

Navigate == \E k \in NavKeys : HandleKey(k)

\* C1: a completion of a superseded request (not the current generation) is
\* discarded: it changes none of the result set, the error, the searching
\* flag, the selection and the stored cancellation handle.
C1_StaleCompletionDiscarded ==
    [][\A c \in cmds : \A msg \in AdapterMsgs(c) :
          (~Current(c) /\ SearchDeliver(c, msg)) =>
              UNCHANGED <<searchResults, searchError, isSearching, selectedIndex,
                          resultsOffset, searchCancel>>]_vars

\* C2: of two requests whose completions are both delivered, the later-issued
\* one decides the result set, the error and the searching flag in either
\* order of delivery: delivered last it sets them, and when it was delivered
\* first the earlier request's completion does not change them.
C2_LastIssuedWins ==
    [][\A c \in cmds : \A msg \in AdapterMsgs(c) :
          SearchDeliver(c, msg) =>
              IF Current(c)
              THEN /\ searchResults' = msg.Results
                   /\ searchError' = msg.Error
                   /\ ~isSearching'
              ELSE (\A d \in cmds : ~Current(d)) =>
                       UNCHANGED <<searchResults, searchError, isSearching>>]_vars

\* C3: a burst of text changes, each arriving before the timer armed by the
\* previous one has fired, issues at most one request, exactly one once all
\* timers have fired and the query is not empty, and that request carries the
\* final query and filter text.
C3_OneSearchPerBurst ==
    burst.ok =>
        /\ nCtx <= 1
        /\ (ticks = <<>> /\ query # <<>>) => nCtx = 1
        /\ ticks = <<>> => \A c \in cmds : c.Query = query /\ c.Mask = mask

\* C4: a text change that makes the query empty leaves the result set empty
\* and searching false, and no step that ends with the query empty (that
\* change, or a timer armed earlier firing afterwards) issues a request.
C4_EmptyQueryShortCircuit ==
    [][/\ (query # <<>> /\ query' = <<>>) => (searchResults' = <<>> /\ ~isSearching')
       /\ query' = <<>> => (nCtx' = nCtx /\ cmds' \subseteq cmds)]_vars

\* C4 witness: the query was emptied after a request had been issued for it
\* and while a debounce timer armed before the change was still pending.
C4_Witness ==
    /\ query = <<>> /\ ticks # <<>> /\ nCtx >= 1 /\ cmds # {}
    /\ searchResults = <<>> /\ ~isSearching

SelectionInv ==
    /\ selectedIndex \in -1..(Len(searchResults) - 1)
    /\ selectedIndex = -1 <=> searchResults = <<>>

\* C5: navigation and search completions keep selectedIndex within
\* [-1, len(results)-1], and -1 exactly when the result set is empty.
C5_SelectionInvariant ==
    [][(SelectionInv /\ (SearchResult \/ Navigate)) => SelectionInv']_vars

\* C6: after a navigation key, when more results exist than the window shows,
\* the selected row lies inside the visible window.
C6_ScrollWindowContainment ==
    [][(Navigate /\ Len(searchResults') > visibleResults) =>
          /\ resultsOffset' <= selectedIndex'
          /\ selectedIndex' <= resultsOffset' + visibleResults - 1]_vars

\* C7: the completion of a preview load that is not the load of the current
\* selection is discarded: it changes neither the preview nor the preview error.
C7_StalePreviewDiscarded ==
    [][\A l \in loads : \A msg \in PreviewMsgs(l) :
          (PreviewDeliver(l, msg) /\ l \notin LoadPreviewCmd(searchResults, selectedIndex))
              => UNCHANGED <<preview, previewError>>]_vars

\* C10: an error completion of the current request sets the error, empties the
\* result set and clears the searching flag; no search completion ends the
\* session.
C10_SearchErrorRecoverable ==
    [][\A c \in cmds : \A msg \in AdapterMsgs(c) :
          SearchDeliver(c, msg) =>
              /\ quit' = quit
              /\ (Current(c) /\ msg.Error # <<>>) =>
                     /\ searchError' = msg.Error
                     /\ searchResults' = <<>>
                     /\ ~isSearching'
                     /\ ~quit']_vars

\* C10 witness: the only request issued has completed with an error and the
\* session goes on.
C10_Witness ==
    /\ nCtx = 1 /\ cmds = {}
    /\ searchError # <<>> /\ searchResults = <<>> /\ ~isSearching /\ ~quit

----------------------------------------------------------------------------
(* Claims about preview.LoadPreview, under SpecPreview *)

\* C8: every successful load returns a hit-line offset within the returned
\* lines, 1 <= HitLine <= len(Lines); stated here for the loads that return at
\* least one line.
C8_PreviewOffsetBound ==
    (pl.pc = "done" /\ pl.res.kind = "ok" /\ pl.res.preview.Lines # <<>>) =>
        /\ 1 <= pl.res.preview.HitLine
        /\ pl.res.preview.HitLine <= Len(pl.res.preview.Lines)

----------------------------------------------------------------------------
(* Claims about search.Searcher.Search, under SpecSearch *)

RECURSIVE ParsedMatches(_)
\* The matches of the output lines that parse, in output order.
ParsedMatches(lines) ==
    IF lines = <<>> THEN <<>>
    ELSE LET r == ParseVimgrepLine(Head(lines))
         IN  (IF r.ok THEN <<r.result>> ELSE <<>>) \o ParsedMatches(Tail(lines))

\* The message the goroutine sent, whether or not it was received yet.
Sent == rg.chan \o rg.got

\* C9: when the backend process runs to its end undisturbed, exit status 0
\* yields the parsed matches without error, exit status 1 yields an empty
\* result list without error, and every other exit status yields an error.
C9_ExitStatusMapping ==
    (rg.pc = "done" /\ rg.proc = "exited" /\ rg.fault = "none" /\ ~rg.ctxDone) =>
        /\ Len(Sent) = 1
        /\ rg.exit = 0 => (Sent[1].Error = <<>> /\ Sent[1].Results = ParsedMatches(rg.out))
        /\ rg.exit = 1 => (Sent[1].Error = <<>> /\ Sent[1].Results = <<>>)
        /\ rg.exit > 1 => Sent[1].Error # <<>>

----------------------------------------------------------------------------
(* Further claims about the session, under Spec *)

\* A step of handleStartSearch that issues a request.
Issues == nCtx' = nCtx + 1

\* C11: a recorded search error does not outlive the next request: the step
\* that issues a request clears the error field, and the successful completion
\* of a request leaves no error set.
C11_ErrorClearedByNextSearch ==
    [][/\ Issues => searchError' = <<>>
       /\ \A c \in cmds : \A msg \in AdapterMsgs(c) :
              (SearchDeliver(c, msg) /\ msg.Error = <<>>) => searchError' = <<>>]_vars

\* C11 witness: an error is recorded and the debounce timer of the next query
\* is about to issue its request.
C11_Witness ==
    /\ searchError # <<>> /\ nCtx = 1 /\ cmds = {}
    /\ \E i \in 1..Len(ticks) : SnapshotCurrent(ticks[i])

\* The Enter key.
EnterKey == [Type |-> "enter", Rune |-> "", Alt |-> FALSE]

C14_QuitCancelsInFlight ==
    (quit /\ opened = <<>>) => \A c \in cmds : c.ctx \in ctxDone

\* The Ctrl+C key.
CtrlCKey == [Type |-> "ctrl+c", Rune |-> "", Alt |-> FALSE]

\* C15: every Ctrl+C ends the session at once, and every ESC ends it when the
\* timeout armed by that ESC is handled, whatever keys were delivered between
\* the ESC and its timeout.
C15_EscOrInterruptQuits ==
    [][/\ HandleKey(CtrlCKey) => quit'
       /\ EscTimeout => quit']_vars

\* Keys that ask for a scope: Alt+P / Alt+D as a rune with the Alt flag, or
\* the characters macOS sends for Option+P / Option+D.
ScopeKeys == {k \in KeyMsgs : k.Rune \in {"pi", "partial"} \/ (k.Alt /\ k.Rune \in {"p", "d"})}

\* C16: a step that changes the scope while the query is not empty issues the
\* new request itself, for the new scope's root, and cancels the request
\* stored before; a scope key for the scope already active issues nothing and
\* arms no timer.
C16_ScopeChangeSearchesAtOnce ==
    [][/\ (searchScope' # searchScope /\ query # <<>>) =>
              /\ Issues
              /\ \E c \in cmds' \ cmds :
                     c.Path = IF searchScope' = "project" THEN gitRoot ELSE currentDir
              /\ searchCancel # 0 => searchCancel \in ctxDone'
       /\ \A k \in ScopeKeys :
              (HandleKey(k) /\ searchScope' = searchScope) => (~Issues /\ ticks' = ticks)]_vars

\* C17: the scope is "project" only if a repository root was detected, it is
\* "project" from the start exactly when one was detected (before the first
\* triggerSearch nothing has changed it), and every request is issued for the
\* repository root when the scope is "project" and for the working directory
\* otherwise.
C17_ScopeAndSearchRoot ==
    /\ [](/\ searchScope \in {"project", "directory"}
          /\ searchScope = "project" => gitRoot # ""
          /\ burst.n = 0 => (searchScope = "project" <=> gitRoot # ""))
    /\ [][Issues => \E c \in cmds' \ cmds :
                        /\ c.ctx = nCtx'
                        /\ c.Path = IF searchScope = "project" THEN gitRoot ELSE currentDir]_vars

\* C17 witness: requests were issued for the repository root and, after a
\* scope change, for the working directory.
C17_Witness ==
    /\ gitRoot # "" /\ searchScope = "directory"
    /\ \E c, d \in cmds : c.Path = gitRoot /\ d.Path = currentDir /\ c.ctx < d.ctx

\* Requests issued, not yet completed, whose cancellation handle was not invoked.
Live == {c \in cmds : c.ctx \notin ctxDone}

\* C21: when a new search request is issued, every previously issued request
\* still in flight has had its cancellation handle invoked; hence at most one
\* issued request is at any time both uncancelled and incomplete.
C21_IssueCancelsPrevious ==
    [][Issues => (\A c \in cmds : c.ctx \in ctxDone) /\ Cardinality(Live') <= 1]_vars

\* The fields of tui.Model together with the requests and loads it has issued.
sessionState == <<query, mask, inputMode, searchCancel, searchResults, selectedIndex,
                  resultsOffset, isSearching, searchError, preview, previewError,
                  searchScope, gitRoot, waitingForEscSequence, quit, opened,
                  cmds, ctxDone, nCtx, loads>>

\* C22: a debounce timer that fires while the query or the filter text differs
\* from the snapshot taken when it was armed issues no request and leaves the
\* session state unchanged.
C22_StaleTimerIgnored ==
    [][\A i \in 1..Len(ticks) :
          (HandleStartSearch(i) /\ (ticks[i].Query # query \/ ticks[i].Mask # mask))
              => UNCHANGED sessionState]_vars

\* C22 witness: two text changes armed two timers, the first has fired after
\* the second change, and no request was issued.
C22_Witness ==
    /\ Len(query) = 2 /\ burst.n = 2 /\ Len(ticks) = 1
    /\ nCtx = 0 /\ cmds = {} /\ ~isSearching

\* C23: in every reachable state selectedIndex = -1 if and only if the result
\* set is empty.
C23_NoSelectionIffEmpty ==
    (selectedIndex = -1) <=> (searchResults = <<>>)

\* C24: in every reachable state 0 <= resultsOffset <= max(0, len(results) - 5),
\* also right after a completion replaced the result set by a shorter one.
C24_ScrollOffsetInRange ==
    /\ 0 <= resultsOffset
    /\ resultsOffset <= Max(0, Len(searchResults) - visibleResults)

UpKeys == {k \in KeyMsgs : KeyStr(k) \in {<<"up">>, <<"k">>}}

DownKeys == {k \in KeyMsgs : KeyStr(k) \in {<<"down">>, <<"j">>}}

\* C25: a navigation key changes nothing when the result set is empty;
\* otherwise the new selectedIndex lies in [0, len(results)-1] and is the old
\* one or its neighbour in the direction of the key, never the other end of
\* the list.
C25_NavigateClamps ==
    [][\A k \in UpKeys \cup DownKeys :
          HandleKey(k) =>
              IF searchResults = <<>>
              THEN UNCHANGED sessionState
              ELSE /\ selectedIndex' \in 0..(Len(searchResults) - 1)
                   /\ selectedIndex' \in
                          {selectedIndex,
                           IF k \in UpKeys THEN selectedIndex - 1 ELSE selectedIndex + 1}]_vars

\* C26: a successful completion of the current request with matches, arriving
\* when nothing is selected, selects row 0, resets the scroll offset and
\* requests the preview of results[0]; one without matches makes no selection
\* and requests no preview.
C26_FirstResultAutoSelected ==
    [][\A c \in cmds : \A msg \in AdapterMsgs(c) :
          (Current(c) /\ msg.Error = <<>> /\ SearchDeliver(c, msg)) =>
              /\ (msg.Results # <<>> /\ selectedIndex < 0) =>
                     /\ selectedIndex' = 0
                     /\ resultsOffset' = 0
                     /\ [File |-> msg.Results[1].File, Line |-> msg.Results[1].Line]
                            \in loads'
              /\ msg.Results = <<>> =>
                     /\ selectedIndex' = selectedIndex
                     /\ loads' = loads]_vars

\* C26 witness: the only request issued has completed with matches, row 0 is
\* selected and its preview load is pending.
C26_Witness ==
    /\ nCtx = 1 /\ cmds = {} /\ searchResults # <<>> /\ searchError = <<>>
    /\ selectedIndex = 0 /\ resultsOffset = 0
    /\ loads = {[File |-> searchResults[1].File, Line |-> searchResults[1].Line]}

\* C27: a failed preview load stores the preview error and leaves no Preview
\* stored; a successful one stores its Preview and clears the preview error;
\* neither changes the result set, the selection, the scroll offset, the
\* search error or the searching flag.
C27_PreviewErrorScoped ==
    [][\A l \in loads : \A msg \in PreviewMsgs(l) :
          PreviewDeliver(l, msg) =>
              /\ UNCHANGED <<searchResults, selectedIndex, resultsOffset,
                             searchError, isSearching>>
              /\ msg.Error # <<>> => (previewError' = msg.Error /\ preview' = <<>>)
              /\ msg.Error = <<>> => (preview' = msg.Preview /\ previewError' = <<>>)]_vars

\* C27 witness: the preview loads of rows 0 and 1 have both completed, the
\* last one with a failure: the error is stored and no Preview is.
C27_Witness ==
    /\ searchResults # <<>> /\ selectedIndex = 1 /\ loads = {}
    /\ previewError # <<>> /\ preview = <<>>

\* C33: when the adapter ends a cancelled request by closing the channel
\* without sending, what the awaiting command hands over leaves the result
\* set, the error, the searching flag and the cancellation handle unchanged.
C33_OnlySentCompletionsApplied ==
    [][\A c \in cmds :
          (ZeroMsg \in AdapterMsgs(c) /\ SearchDeliver(c, ZeroMsg)) =>
              UNCHANGED <<searchResults, searchError, isSearching, searchCancel>>]_vars

\* C34: in every reachable state an empty query text goes with an empty
\* result set, whatever completions of earlier requests arrive after the
\* query was cleared.
C34_EmptyQueryEmptyResults ==
    query = <<>> => searchResults = <<>>

\* C35: whenever a Preview is stored, a selection exists and the Preview's
\* file is the file of results[selectedIndex]; hence after a text or scope
\* change has reset the selection no Preview is stored until a new selection
\* is made.
C35_PreviewBelongsToSelection ==
    preview # <<>> =>
        /\ selectedIndex \in 0..(Len(searchResults) - 1)
        /\ preview[1].File = searchResults[selectedIndex + 1].File

\* The Backspace key.
BackspaceKey == [Type |-> "backspace", Rune |-> "", Alt |-> FALSE]

\* The text of the active input field.
ActiveText == IF inputMode = "query" THEN query ELSE mask

\* C36: a key event that leaves the query and the filter text unchanged, such
\* as Backspace on an empty field, changes neither selectedIndex, the scroll
\* offset nor the preview, cancels no request and arms no debounce timer.
C36_UnchangedTextNoEffect ==
    [][(ActiveText = <<>> /\ ~waitingForEscSequence /\ HandleKey(BackspaceKey)) =>
          UNCHANGED <<selectedIndex, resultsOffset, preview, ctxDone, ticks>>]_vars

\* The key event of the single printable character r.
RuneKey(r) == [Type |-> "runes", Rune |-> r, Alt |-> FALSE]

\* C37: every single printable-character key event, 'j' and 'k' included,
\* received while no escape sequence is pending appends its character to the
\* text of the active input field.
C37_PrintableKeysAreText ==
    [][\A r \in Chars \cup {"j", "k"} :
          (~waitingForEscSequence /\ HandleKey(RuneKey(r))) =>
              IF inputMode = "query"
              THEN query' = Append(query, r)
              ELSE mask' = Append(mask, r)]_vars

----------------------------------------------------------------------------
(* Further claims about search.Searcher.Search, under SpecSearch *)

\* C12: the results collected so far are the output lines read so far that
\* parse, in output order; and a search that runs to its end with exit status 0
\* delivers exactly the parsed matches of its whole output, without error,
\* whatever lines failed to parse.
C12_ParsedInOutputOrder ==
    /\ rg.results = ParsedMatches(SubSeq(rg.out, 1, rg.pos))
    /\ (rg.pc = "done" /\ rg.proc = "exited" /\ rg.exit = 0
            /\ rg.fault = "none" /\ ~rg.ctxDone) =>
           Sent = <<[SearchID |-> 1, Results |-> ParsedMatches(rg.out), Error |-> <<>>]>>

\* C12 witness: an output with a line that does not parse before one that
\* does was delivered as one match without error.
C12_Witness ==
    /\ rg.pc = "done" /\ rg.proc = "exited" /\ rg.exit = 0 /\ ~rg.ctxDone
    /\ Len(rg.out) = 2
    /\ ~ParseVimgrepLine(rg.out[1]).ok /\ ParseVimgrepLine(rg.out[2]).ok
    /\ Len(Sent) = 1 /\ Len(Sent[1].Results) = 1 /\ Sent[1].Error = <<>>

\* C19: once the request's context has been cancelled, the adapter sends no
\* completion on the result channel, neither matches nor an error; stated
\* here for the calls whose pipe and output reading do not fail.
C19_NoCompletionAfterCancel ==
    [][(rg.ctxDone /\ rg.fault = "none") => Len(rg'.chan) <= Len(rg.chan)]_vars

----------------------------------------------------------------------------
(* Claims about the Searcher's request numbering, under SpecIDs *)

\* C18: the calls that have taken their number hold pairwise different
\* numbers, and a call started later holds a greater number than one started
\* earlier.
C18_GenerationsUnique ==
    \A i, j \in Calls :
        (i < j /\ sr.call[i].pc = "go" /\ sr.call[j].pc = "go") =>
            sr.call[i].currentID < sr.call[j].currentID

----------------------------------------------------------------------------
(* Claims about search.ParseVimgrepLine, under SpecParse *)

\* The number of ":" in s.
Colons(s) == Cardinality({i \in 1..Len(s) : s[i] = ":"})

\* A decimal integer text: an optional sign, then digits.
IsIntegerText(t) ==
    LET d == IF t # <<>> /\ t[1] \in {"-", "+"} THEN Tail(t) ELSE t
    IN  d # <<>> /\ \A n \in 1..Len(d) : \E v \in 0..9 : d[n] = Digit[v + 1]

\* s is a path without ":", then ":", an integer, ":", an integer, ":" and a
\* text.
HasVimgrepForm(s) ==
    \E i, j, k \in 1..Len(s) :
        /\ i < j /\ j < k
        /\ s[i] = ":" /\ s[j] = ":" /\ s[k] = ":"
        /\ Colons(SubSeq(s, 1, i - 1)) = 0
        /\ IsIntegerText(SubSeq(s, i + 1, j - 1))
        /\ IsIntegerText(SubSeq(s, j + 1, k - 1))

\* C20: the line written for (path, line, column, text), path without ":",
\* parses to exactly those four values, the text keeping its own ":"; a line
\* with fewer than three ":" is rejected, and every arbitrary line that is
\* accepted is a path, two integers and a text separated by its first three ":".
C20_ParseRoundTrip ==
    pv.pc = "done" =>
        /\ pv.formatted =>
               /\ pv.res.ok
               /\ pv.res.result = [File |-> pv.path, Line |-> pv.line,
                                   Column |-> pv.column, Text |-> pv.text]
        /\ Colons(pv.raw) < 3 => ~pv.res.ok
        /\ (~pv.formatted /\ pv.res.ok) => HasVimgrepForm(pv.raw)

\* C20 witness: a line with a negative line number and a text holding ":" was
\* parsed back to its four values.
C20_Witness ==
    /\ pv.pc = "done" /\ pv.formatted /\ pv.res.ok
    /\ pv.line < 0 /\ Colons(pv.text) = 2 /\ pv.res.result.Text = pv.text

\* C28: every match parsed from an output line whose line and column fields
\* are integers, zero and negative ones included, has Line >= 1 and
\* Column >= 1.
C28_MatchPositionsPositive ==
    (pv.pc = "done" /\ pv.res.ok) =>
        /\ pv.res.result.Line >= 1
        /\ pv.res.result.Column >= 1

----------------------------------------------------------------------------
(* Further claims about preview.LoadPreview, under SpecPreview *)

\* Lines a..b of the file of SpecPreview, whose line i holds i.
FileRange(a, b) == [j \in 1..(b - a + 1) |-> a + j - 1]

C30_PreviewWindowInFile ==
    (pl.pc = "done" /\ pl.res.kind = "ok") =>
        /\ pl.res.preview.StartLine >= 1
        /\ pl.res.preview.StartLine + Len(pl.res.preview.Lines) - 1 <= pl.n
        /\ pl.n > 0 => pl.res.preview.StartLine <= pl.n
        /\ Len(pl.res.preview.Lines) <= previewBefore + previewAfter + 1

\* C38: LoadPreview is total on readable files: for every file of n >= 0
\* lines and every target line t, t beyond the end of the file and t <= 0
\* included, the call returns a Preview or an error and never aborts.
C38_LoadPreviewTotal ==
    pl.pc = "done" => pl.res.kind \in {"ok", "error"}

----------------------------------------------------------------------------
(* Further claims about the Searcher's request numbering, under SpecIDs *)

\* The search commands that are inside "s.searchID++; currentID := s.searchID".
Numbering == {i \in Calls : sr.call[i].pc \in {"load", "store", "read"}}

\* C31: the generation counter is written only from the event loop, hence by
\* one task at a time: no two tasks are at once inside their accesses to it.
C31_CounterWrittenByOneTask ==
    Cardinality(Numbering) <= 1

----------------------------------------------------------------------------
(* Claims about the hand-over of a search completion, under SpecSearch *)

\* C32: the search worker and the command awaiting it never deadlock: the
\* worker's send never finds the result channel (capacity 1) full, and as long
\* as the command has not received its message some step of the worker, the
\* backend process or the command itself is possible.
C32_NoDeadlock ==
    /\ Len(rg.chan) <= 1
    /\ rg.got = <<>> => ENABLED NextSearch

\* C32 witness: the request was cancelled while output was being read, the
\* worker returned without sending, and the awaiting command was released by
\* the closed channel.
C32_Witness ==
    /\ rg.pc = "done" /\ rg.ctxDone /\ rg.closed /\ rg.proc = "killed"
    /\ rg.chan = <<>> /\ rg.got = <<ZeroMsg>>

----------------------------------------------------------------------------
(* Claims about one request from issue to completion, under SpecCompletion *)

\* C39: a call of Searcher.Search sends at most one message on its result
\* channel and has closed the channel whenever it has returned; provided the
\* backend process terminates or is killed, the worker returns, the awaiting
\* command receives, and the searching flag eventually becomes false.
C39_SearchAlwaysCompletes ==
    /\ [](Len(Sent) <= 1 /\ (rg.pc = "done" => rg.closed))
    /\ <>(rg.pc = "done" /\ rg.got # <<>> /\ ~isSearching)

\* C39 witness: the worker sent the matches it had parsed and closed the
\* channel, the command received them, and handleSearchResult stored them
\* and cleared the searching flag.
C39_Witness ==
    /\ rg.pc = "done" /\ rg.closed /\ rg.chan = <<>> /\ cmds = {}
    /\ rg.got # <<>> /\ rg.got[1].Results # <<>>
    /\ searchResults = rg.got[1].Results /\ ~isSearching

====
